---- MODULE Spec2Model ----
(***************************************************************************)
(* Model of tutorials/CorrectnessVerificationAndPerformanceComparison.ipynb *)
(* run top to bottom in a fresh kernel.  Each code cell's statements are    *)
(* actions sequenced by pc; a statement that raises ends the run (pc =      *)
(* "error"), as a notebook run stops at the first failing cell.             *)
(*                                                                          *)
(* Numbers are fixed point.  Input elements are integers in units of        *)
(* 1/InputScale, so products (the outputs of torch.mm) are integers in      *)
(* units of 1/Scale with Scale = InputScale^2 = 10^6: one decimal finer     *)
(* than the 10^-expected_decimal the precision check is about.              *)
(*                                                                          *)
(* The library calls are modelled by their contracts:                       *)
(*   numpy.testing.assert_almost_equal(actual, desired, decimal) on arrays  *)
(*     raises AssertionError unless the shapes agree and every element has  *)
(*     abs(desired - actual) < 1.5 * 10**(-decimal);                        *)
(*   onnx_caffe2.helper.save_caffe2_net(net, file, output_txt) writes       *)
(*     net.SerializeToString() to file and, with output_txt, str(net) to    *)
(*     file + "txt"; load_caffe2_net(file) parses file's bytes as a NetDef; *)
(*   name_inputs(onnx_model, inputs) is dict(zip(graph input names,         *)
(*     inputs)); c2_native_run_net returns one value per                    *)
(*     predict_net.external_output.                                         *)
(* What a library computes beyond its contract (whether it raises, the      *)
(* numbers Caffe2 produces, the measured times) is a nondeterministic       *)
(* choice from a bounded set.                                               *)
(***************************************************************************)
EXTENDS Integers, Sequences, FiniteSets, TLC

VARIABLES
    pc,               \* the next statement of the notebook, "done" or "error"
    err,              \* the exception that ended the run, "" if none
    fs,               \* the files under ./output : path -> file
    stdout,           \* the lines printed so far (the cells' recorded outputs
                      \* show what reaches it: the notebook's own prints and
                      \* export's verbose graph, nothing from the other calls)
    calls,            \* the library calls made so far, in order
    pytorch_model,
    inputs,
    f,
    onnx_model,
    init_net,
    predict_net,
    device_opts,
    caffe2_inputs,
    pytorch_results,
    caffe2_results,
    loop_i,           \* the precision loop's position in its zip
    compared,         \* assert_almost_equal calls made by the precision loop
    pytorch_times,
    caffe2_times

vars == <<pc, err, fs, stdout, calls, pytorch_model, inputs, f, onnx_model,
          init_net, predict_net, device_opts, caffe2_inputs, pytorch_results,
          caffe2_results, loop_i, compared, pytorch_times, caffe2_times>>

----------------------------------------------------------------------------
(* Bounds of the model *)

\* torch.randn draws: the samples enumerated per input tensor
MaxSeed == 2
\* the most outputs the converted predict net declares
MaxOutputs == 2

(* Program constants *)

expected_decimal == 5
Rows1 == 3
Cols1 == 4
Cols2 == 5

InputScale == 10^3
Scale == InputScale * InputScale

None == [type |-> "None"]

Abs(x) == IF x < 0 THEN -x ELSE x
Min(a, b) == IF a < b THEN a ELSE b

----------------------------------------------------------------------------
(* Tensors and arrays: row-major data with a shape *)

\* torch.randn(r, c): one of the enumerated samples, elements in -2..2
randn(r, c, seed) ==
    [type |-> "Tensor", shape |-> <<r, c>>,
     data |-> [i \in 1..(r * c) |-> ((i * seed + seed * seed) % 5) - 2]]

Variable(t) == [type |-> "Variable", shape |-> t.shape, data |-> t.data]

\* var.data.numpy(): the same elements, as an ndarray
numpy(var) == [type |-> "ndarray", shape |-> var.shape, data |-> var.data]

RECURSIVE Dot(_, _, _, _, _)
Dot(m1, m2, i, j, k) ==
    IF k = 0 THEN 0
    ELSE Dot(m1, m2, i, j, k - 1)
         + m1.data[(i - 1) * m1.shape[2] + k] * m2.data[(k - 1) * m2.shape[2] + j]

\* torch.mm(m1, m2)
mm(m1, m2) ==
    [type |-> "Variable", shape |-> <<m1.shape[1], m2.shape[2]>>,
     data |-> [n \in 1..(m1.shape[1] * m2.shape[2]) |->
                  Dot(m1, m2, ((n - 1) \div m2.shape[2]) + 1,
                      ((n - 1) % m2.shape[2]) + 1, m1.shape[2])]]

\* MyModel.forward
forward(m1, m2) == mm(m1, m2)

----------------------------------------------------------------------------
(* Protocol buffers and files *)

CPU == "CPU"
CUDA == "CUDA"

\* core.DeviceOption(device_type, device_id)
DeviceOption(device_type, device_id) ==
    [type |-> "DeviceOption", device_type |-> device_type, device_id |-> device_id]

\* a NetDef as the converter returns it: no device option set
NetDef(name, graph, external_input, external_output) ==
    [type |-> "NetDef", name |-> name, graph |-> graph, device_option |-> None,
     external_input |-> external_input, external_output |-> external_output]

\* net.device_option.CopyFrom(opts)
CopyDeviceOption(net, opts) == [net EXCEPT !.device_option = opts]

\* message.SerializeToString(): the wire form, fields in tag order
SerializeToString(msg) ==
    IF msg.type = "NetDef"
    THEN [type |-> "bytes", message |-> "NetDef",
          payload |-> <<msg.name, msg.graph, msg.device_option,
                        msg.external_input, msg.external_output>>]
    ELSE [type |-> "bytes", message |-> "ModelProto", payload |-> <<msg.graph>>]

\* str(net): the text form
TextFormat(msg) == [type |-> "text", message |-> msg.type, payload |-> <<msg.name>>]

\* whether NetDef.ParseFromString accepts the content
ParsesAsNetDef(content) == content.type = "bytes" /\ content.message = "NetDef"

\* NetDef.ParseFromString(content)
ParseNetDef(content) ==
    [type |-> "NetDef", name |-> content.payload[1], graph |-> content.payload[2],
     device_option |-> content.payload[3], external_input |-> content.payload[4],
     external_output |-> content.payload[5]]

\* onnx.ModelProto.FromString(f.getvalue())
FromString(content) == [type |-> "ModelProto", graph |-> content.payload[1]]

init_file == "./output/mymodel_init.pb"
predict_file == "./output/mymodel_predict.pb"

\* file + "txt"
TxtPath(file) ==
    IF file = init_file THEN "./output/mymodel_init.pbtxt"
    ELSE "./output/mymodel_predict.pbtxt"

Paths == {init_file, predict_file, TxtPath(init_file), TxtPath(predict_file)}

\* a net left in ./output by an earlier session
StaleNet ==
    CopyDeviceOption(NetDef("stale", [producer |-> "OtherModel"], <<>>, <<1>>),
                     DeviceOption(CUDA, 0))

\* the states ./output can be in when the kernel starts
InitialFs ==
    { [exists |-> FALSE, file |-> [p \in Paths |-> None]],
      [exists |-> TRUE, file |-> [p \in Paths |-> None]],
      [exists |-> TRUE,
       file |-> [p \in Paths |->
                   IF p \in {init_file, predict_file}
                   THEN SerializeToString(StaleNet) ELSE TextFormat(StaleNet)]] }

\* onnx_caffe2.helper.save_caffe2_net(net, file, output_txt), on a files map
save_caffe2_net(files, net, file, output_txt) ==
    [p \in Paths |->
        IF p = file THEN SerializeToString(net)
        ELSE IF output_txt /\ p = TxtPath(file) THEN TextFormat(net)
        ELSE files[p]]

\* whether onnx_caffe2.helper.load_caffe2_net(file) returns
Loadable(files, file) == files[file].type # "None" /\ ParsesAsNetDef(files[file])

\* onnx_caffe2.helper.load_caffe2_net(file)
load_caffe2_net(files, file) == ParseNetDef(files[file])

----------------------------------------------------------------------------
(* The closeness check *)

\* a closeness test with the tolerance 10**(-decimal)
assert_within_decimal(actual, desired, decimal) ==
    /\ actual.shape = desired.shape
    /\ \A i \in DOMAIN actual.data :
          Abs(desired.data[i] - actual.data[i]) * 10^decimal < Scale

\* numpy.testing.assert_almost_equal(actual, desired, decimal) on arrays:
\* TRUE when it returns, FALSE when it raises AssertionError.  It returns
\* iff the shapes agree and abs(desired - actual) < 1.5 * 10**(-decimal)
\* holds for every element, here on values in units of 1/Scale.
assert_almost_equal(actual, desired, decimal) ==
    /\ actual.shape = desired.shape
    /\ \A i \in DOMAIN actual.data :
          2 * Abs(desired.data[i] - actual.data[i]) * 10^decimal < 3 * Scale

\* zip(a, b): pairs up to the shorter argument's length
zip(a, b) == [i \in 1..Min(Len(a), Len(b)) |-> <<a[i], b[i]>>]

\* a loop over every Caffe2 output, each against the PyTorch result
LoopPairsAll == [i \in 1..Len(caffe2_results) |-> <<pytorch_results, caffe2_results[i]>>]

\* the pairs the precision loop iterates over
LoopPairs == zip(<<pytorch_results>>, caffe2_results)

----------------------------------------------------------------------------
(* What the Caffe2 run and the benchmarks may return *)

\* differences Caffe2 may show in one element, in units of 1/Scale
ErrVals == {0, 9, 10, -14, 15, -16}

\* a with element q moved by e
Perturb(a, q, e) ==
    [type |-> "ndarray", shape |-> a.shape,
     data |-> [i \in DOMAIN a.data |-> IF i = q THEN a.data[i] + e ELSE a.data[i]]]

\* a with its two dimensions exchanged, elements kept in place
Reshaped(a) == [type |-> "ndarray", shape |-> <<a.shape[2], a.shape[1]>>, data |-> a.data]

\* the arrays one Caffe2 output may hold when PyTorch computes p
OutputCandidates(p) ==
    { Perturb(p, q, e) : q \in {1, Len(p.data)}, e \in ErrVals } \cup { Reshaped(p) }

TimeVals == {6, 10}

\* what a benchmark helper may return: the time per iteration first
BenchResults == { <<t>> : t \in TimeVals } \cup { <<t, 1000 \div t>> : t \in TimeVals }

----------------------------------------------------------------------------
(* Printing and the call log *)

\* print(template.format(*args))
print(template, args) == Append(stdout, [text |-> template, args |-> args])

Call(fn, arg, raised) == Append(calls, [fn |-> fn, arg |-> arg, raised |-> raised])

\* an exception ends the run
Raise(e) == pc' = "error" /\ err' = e

----------------------------------------------------------------------------
(* The other library calls *)

\* torch.onnx.export(model, args, f): the traced graph, serialized
ExportedGraph(model, args, well_formed) ==
    [producer |-> model.type, traced |-> <<args[1].shape, args[2].shape>>,
     input |-> <<0, 1>>, output |-> <<3>>, well_formed |-> well_formed]

\* Caffe2Backend.onnx_graph_to_caffe2_net(graph) with n declared outputs
onnx_graph_to_caffe2_net(graph, n) ==
    <<NetDef("init", graph, <<>>, <<>>),
      NetDef("predict", graph, graph.input, [i \in 1..n |-> 2 + i])>>

\* onnx_caffe2.helper.name_inputs(onnx_model, inputs)
name_inputs(model, ins) ==
    LET z == zip(model.graph.input, ins)
    IN  [k \in {z[i][1] : i \in DOMAIN z} |->
            z[CHOOSE i \in DOMAIN z : z[i][1] = k][2]]

----------------------------------------------------------------------------
Init ==
    /\ pc = "create"
    /\ err = ""
    /\ fs \in InitialFs
    /\ stdout = <<>>
    /\ calls = <<>>
    /\ pytorch_model = None
    /\ inputs = <<>>
    /\ f = None
    /\ onnx_model = None
    /\ init_net = None
    /\ predict_net = None
    /\ device_opts = None
    /\ caffe2_inputs = <<>>
    /\ pytorch_results = None
    /\ caffe2_results = <<>>
    /\ loop_i = 0
    /\ compared = 0
    /\ pytorch_times = <<>>
    /\ caffe2_times = <<>>

\* pytorch_model = MyModel(); inputs = (Variable(randn(3, 4)), Variable(randn(4, 5)))
CreateModel ==
    /\ pc = "create"
    /\ \E s1 \in 1..MaxSeed, s2 \in 1..MaxSeed :
          inputs' = <<Variable(randn(Rows1, Cols1, s1)), Variable(randn(Cols1, Cols2, s2))>>
    /\ pytorch_model' = [type |-> "MyModel"]
    /\ calls' = Call("torch.randn", [args |-> inputs'], FALSE)
    /\ pc' = "export"
    /\ UNCHANGED <<err, fs, stdout, f, onnx_model, init_net, predict_net, device_opts,
                   caffe2_inputs, pytorch_results, caffe2_results, loop_i, compared,
                   pytorch_times, caffe2_times>>

\* f = io.BytesIO(); torch.onnx.export(pytorch_model, inputs, f, verbose=True)
\* onnx_model = onnx.ModelProto.FromString(f.getvalue())
Export ==
    /\ pc = "export"
    /\ \/ /\ \E wf \in BOOLEAN :
               f' = SerializeToString(
                      [type |-> "ModelProto",
                       graph |-> ExportedGraph(pytorch_model, inputs, wf)])
          /\ onnx_model' = FromString(f')
          /\ stdout' = print("graph", <<>>)
          /\ calls' = Call("torch.onnx.export", [model |-> pytorch_model, args |-> inputs], FALSE)
          /\ pc' = "check_model"
          /\ UNCHANGED err
       \/ /\ Raise("ExportError")
          /\ calls' = Call("torch.onnx.export", [model |-> pytorch_model, args |-> inputs], TRUE)
          /\ UNCHANGED <<f, onnx_model, stdout>>
    /\ UNCHANGED <<fs, pytorch_model, inputs, init_net, predict_net, device_opts,
                   caffe2_inputs, pytorch_results, caffe2_results, loop_i, compared,
                   pytorch_times, caffe2_times>>

\* a check whose failure does not stop the run
CheckModelUnchecked ==
    /\ pc = "check_model"
    /\ stdout' = print("Check the ONNX model.", <<>>)
    /\ calls' = Call("onnx.checker.check_model", onnx_model, ~onnx_model.graph.well_formed)
    /\ pc' = "convert"
    /\ UNCHANGED <<err, fs, pytorch_model, inputs, f, onnx_model, init_net, predict_net,
                   device_opts, caffe2_inputs, pytorch_results, caffe2_results, loop_i,
                   compared, pytorch_times, caffe2_times>>

\* print("Check the ONNX model."); onnx.checker.check_model(onnx_model)
CheckModel ==
    /\ pc = "check_model"
    /\ stdout' = print("Check the ONNX model.", <<>>)
    /\ calls' = Call("onnx.checker.check_model", onnx_model, ~onnx_model.graph.well_formed)
    /\ IF onnx_model.graph.well_formed
       THEN pc' = "convert" /\ UNCHANGED err
       ELSE Raise("ValidationError")
    /\ UNCHANGED <<fs, pytorch_model, inputs, f, onnx_model, init_net, predict_net,
                   device_opts, caffe2_inputs, pytorch_results, caffe2_results, loop_i,
                   compared, pytorch_times, caffe2_times>>

\* print(...); init_net, predict_net = onnx_graph_to_caffe2_net(onnx_model.graph)
\* device_opts = core.DeviceOption(caffe2_pb2.CPU, 0); both nets CopyFrom(device_opts)
Convert ==
    /\ pc = "convert"
    /\ stdout' = print("Convert the model to a Caffe2 model.", <<>>)
    /\ \/ /\ \E n \in 0..MaxOutputs :
               LET nets == onnx_graph_to_caffe2_net(onnx_model.graph, n)
                   opts == DeviceOption(CPU, 0)
               IN  /\ device_opts' = opts
                   /\ init_net' = CopyDeviceOption(nets[1], opts)
                   /\ predict_net' = CopyDeviceOption(nets[2], opts)
          /\ calls' = Call("onnx_graph_to_caffe2_net", onnx_model, FALSE)
          /\ pc' = "prepare"
          /\ UNCHANGED err
       \/ /\ Raise("ConversionError")
          /\ calls' = Call("onnx_graph_to_caffe2_net", onnx_model, TRUE)
          /\ UNCHANGED <<init_net, predict_net, device_opts>>
    /\ UNCHANGED <<fs, pytorch_model, inputs, f, onnx_model, caffe2_inputs,
                   pytorch_results, caffe2_results, loop_i, compared, pytorch_times,
                   caffe2_times>>

\* the converted inputs, collected in reverse
Caffe2InputsReversed(ins) == [i \in DOMAIN ins |-> numpy(ins[Len(ins) + 1 - i])]

\* [var.data.numpy() for var in ins]
Caffe2InputsOf(ins) == [i \in DOMAIN ins |-> numpy(ins[i])]

\* caffe2_inputs = [var.data.numpy() for var in inputs]
PrepareInputs ==
    /\ pc = "prepare"
    /\ caffe2_inputs' = Caffe2InputsOf(inputs)
    /\ pc' = "save"
    /\ UNCHANGED <<err, fs, stdout, calls, pytorch_model, inputs, f, onnx_model, init_net,
                   predict_net, device_opts, pytorch_results, caffe2_results, loop_i,
                   compared, pytorch_times, caffe2_times>>

\* save_caffe2_net(init_net, init_file, output_txt=False)
\* save_caffe2_net(predict_net, predict_file, output_txt=True)
Save ==
    /\ pc = "save"
    /\ IF fs.exists
       THEN /\ fs' = [fs EXCEPT !.file =
                        save_caffe2_net(save_caffe2_net(fs.file, init_net, init_file, FALSE),
                                        predict_net, predict_file, TRUE)]
            /\ calls' = Call("save_caffe2_net", [init |-> init_net, predict |-> predict_net], FALSE)
            /\ pc' = "load"
            /\ UNCHANGED err
       ELSE /\ Raise("IOError")
            /\ calls' = Call("save_caffe2_net", [init |-> init_net, predict |-> predict_net], TRUE)
            /\ UNCHANGED fs
    /\ UNCHANGED <<stdout, pytorch_model, inputs, f, onnx_model, init_net, predict_net,
                   device_opts, caffe2_inputs, pytorch_results, caffe2_results, loop_i,
                   compared, pytorch_times, caffe2_times>>

\* both nets reloaded from the init file
LoadFilesSlip == <<init_file, init_file>>

\* the file each net is reloaded from
LoadFiles == <<init_file, predict_file>>

\* init_net = load_caffe2_net(init_file); predict_net = load_caffe2_net(predict_file)
Load ==
    /\ pc = "load"
    /\ IF Loadable(fs.file, LoadFiles[1]) /\ Loadable(fs.file, LoadFiles[2])
       THEN /\ init_net' = load_caffe2_net(fs.file, LoadFiles[1])
            /\ predict_net' = load_caffe2_net(fs.file, LoadFiles[2])
            /\ calls' = Call("load_caffe2_net", None, FALSE)
            /\ pc' = "run_pytorch"
            /\ UNCHANGED err
       ELSE /\ Raise("DecodeError")
            /\ calls' = Call("load_caffe2_net", None, TRUE)
            /\ UNCHANGED <<init_net, predict_net>>
    /\ UNCHANGED <<fs, stdout, pytorch_model, inputs, f, onnx_model, device_opts,
                   caffe2_inputs, pytorch_results, caffe2_results, loop_i, compared,
                   pytorch_times, caffe2_times>>

\* pytorch_results = pytorch_model(*inputs)
RunPytorch ==
    /\ pc = "run_pytorch"
    /\ pytorch_results' = forward(inputs[1], inputs[2])
    /\ calls' = Call("pytorch_model", [model |-> pytorch_model, args |-> inputs], FALSE)
    /\ pc' = "run_caffe2"
    /\ UNCHANGED <<err, fs, stdout, pytorch_model, inputs, f, onnx_model, init_net,
                   predict_net, device_opts, caffe2_inputs, caffe2_results, loop_i,
                   compared, pytorch_times, caffe2_times>>

\* what c2_native_run_net is called with
RunArgs ==
    [init |-> init_net, predict |-> predict_net,
     feed |-> name_inputs(onnx_model, caffe2_inputs)]

\* _, caffe2_results = c2_native_run_net(init_net, predict_net, name_inputs(...))
RunCaffe2 ==
    /\ pc = "run_caffe2"
    /\ \/ /\ caffe2_results' \in
               [1..Len(predict_net.external_output) -> OutputCandidates(numpy(pytorch_results))]
          /\ calls' = Call("c2_native_run_net", RunArgs, FALSE)
          /\ loop_i' = 1
          /\ pc' = "precision_loop"
          /\ UNCHANGED err
       \/ /\ Raise("RuntimeError")
          /\ calls' = Call("c2_native_run_net", RunArgs, TRUE)
          /\ UNCHANGED <<caffe2_results, loop_i>>
    /\ UNCHANGED <<fs, stdout, pytorch_model, inputs, f, onnx_model, init_net, predict_net,
                   device_opts, caffe2_inputs, pytorch_results, compared, pytorch_times,
                   caffe2_times>>

\* whether the loop body's assertion returns for the pair at loop_i; with the
\* CPU device option the body's CUDA branch (p.cpu(), result unused) is skipped
BodyPasses ==
    assert_almost_equal(numpy(LoopPairs[loop_i][1]), LoopPairs[loop_i][2], expected_decimal)

\* the arrays the loop body hands to the assertion
BodyArgs == [actual |-> numpy(LoopPairs[loop_i][1]), desired |-> LoopPairs[loop_i][2]]

\* a loop whose failed assertion does not stop the run
PrecisionLoopSwallow ==
    /\ pc = "precision_loop"
    /\ loop_i <= Len(LoopPairs)
    /\ compared' = compared + 1
    /\ calls' = Call("assert_almost_equal", BodyArgs, ~BodyPasses)
    /\ loop_i' = loop_i + 1
    /\ UNCHANGED <<pc, err, fs, stdout, pytorch_model, inputs, f, onnx_model, init_net,
                   predict_net, device_opts, caffe2_inputs, pytorch_results,
                   caffe2_results, pytorch_times, caffe2_times>>

\* for p, c in zip([pytorch_results], caffe2_results):
\*     np.testing.assert_almost_equal(p.data.cpu().numpy(), c, decimal=expected_decimal)
PrecisionLoop ==
    /\ pc = "precision_loop"
    /\ loop_i <= Len(LoopPairs)
    /\ compared' = compared + 1
    /\ calls' = Call("assert_almost_equal", BodyArgs, ~BodyPasses)
    /\ IF BodyPasses
       THEN loop_i' = loop_i + 1 /\ UNCHANGED <<pc, err>>
       ELSE Raise("AssertionError") /\ UNCHANGED loop_i
    /\ UNCHANGED <<fs, stdout, pytorch_model, inputs, f, onnx_model, init_net, predict_net,
                   device_opts, caffe2_inputs, pytorch_results, caffe2_results,
                   pytorch_times, caffe2_times>>

PrecisionMessage == "The exported model achieves {}-decimal precision."

\* print("The exported model achieves {}-decimal precision.".format(expected_decimal))
PrintPrecision ==
    /\ pc = "precision_loop"
    /\ loop_i > Len(LoopPairs)
    /\ stdout' = print(PrecisionMessage, <<expected_decimal>>)
    /\ pc' = "bench_pytorch"
    /\ UNCHANGED <<err, fs, calls, pytorch_model, inputs, f, onnx_model, init_net,
                   predict_net, device_opts, caffe2_inputs, pytorch_results,
                   caffe2_results, loop_i, compared, pytorch_times, caffe2_times>>

\* pytorch_times = benchmark_pytorch_model(pytorch_model, inputs)
BenchPytorch ==
    /\ pc = "bench_pytorch"
    /\ pytorch_times' \in BenchResults
    /\ calls' = Call("benchmark_pytorch_model", [model |-> pytorch_model, args |-> inputs], FALSE)
    /\ pc' = "bench_caffe2"
    /\ UNCHANGED <<err, fs, stdout, pytorch_model, inputs, f, onnx_model, init_net,
                   predict_net, device_opts, caffe2_inputs, pytorch_results,
                   caffe2_results, loop_i, compared, caffe2_times>>

\* caffe2_times = benchmark_caffe2_model(init_net, predict_net)
BenchCaffe2 ==
    /\ pc = "bench_caffe2"
    /\ \/ /\ caffe2_times' \in BenchResults
          /\ calls' = Call("benchmark_caffe2_model",
                           [init |-> init_net, predict |-> predict_net], FALSE)
          /\ pc' = "print_times"
          /\ UNCHANGED err
       \/ /\ Raise("RuntimeError")
          /\ calls' = Call("benchmark_caffe2_model",
                           [init |-> init_net, predict |-> predict_net], TRUE)
          /\ UNCHANGED caffe2_times
    /\ UNCHANGED <<fs, stdout, pytorch_model, inputs, f, onnx_model, init_net, predict_net,
                   device_opts, caffe2_inputs, pytorch_results, caffe2_results, loop_i,
                   compared, pytorch_times>>

PytorchTimeLine == "PyTorch model's execution time is {} / iteration."
Caffe2TimeLine == "Caffe2 model's execution time is {} / iteration."

\* the two lines with the times exchanged
TimeLinesSwapped ==
    << [text |-> PytorchTimeLine, args |-> <<caffe2_times[1]>>],
       [text |-> Caffe2TimeLine, args |-> <<pytorch_times[1]>>] >>

\* the two lines the benchmark cell prints
TimeLines ==
    << [text |-> PytorchTimeLine, args |-> <<pytorch_times[1]>>],
       [text |-> Caffe2TimeLine, args |-> <<caffe2_times[1]>>] >>

\* print("PyTorch model's execution time is {} / iteration.".format(pytorch_times[0]))
\* print("Caffe2 model's execution time is {} / iteration.".format(caffe2_times[0]))
PrintTimes ==
    /\ pc = "print_times"
    /\ stdout' = stdout \o TimeLines
    /\ pc' = "done"
    /\ UNCHANGED <<err, fs, calls, pytorch_model, inputs, f, onnx_model, init_net,
                   predict_net, device_opts, caffe2_inputs, pytorch_results,
                   caffe2_results, loop_i, compared, pytorch_times, caffe2_times>>

Next ==
    \/ CreateModel
    \/ Export
    \/ CheckModel
    \/ Convert
    \/ PrepareInputs
    \/ Save
    \/ Load
    \/ RunPytorch
    \/ RunCaffe2
    \/ PrecisionLoop
    \/ PrintPrecision
    \/ BenchPytorch
    \/ BenchCaffe2
    \/ PrintTimes

Spec == Init /\ [][Next]_vars

----------------------------------------------------------------------------
(* Vocabulary of the properties *)

\* the log entries of the calls of fn
CallsOf(fn) == { i \in DOMAIN calls : calls[i].fn = fn }

\* fn was called and returned
Returned(fn) == \E i \in CallsOf(fn) : ~calls[i].raised

Printed(text) == \E i \in DOMAIN stdout : stdout[i].text = text

LinesWith(text) == { i \in DOMAIN stdout : stdout[i].text = text }

\* the precision loop has ended, by exhausting its zip or by an AssertionError
LoopEnded ==
    /\ Returned("c2_native_run_net")
    /\ \/ pc = "precision_loop" /\ loop_i > Len(LoopPairs)
       \/ pc \notin {"precision_loop"}

\* every element of c is within num/den * 10^-expected_decimal of p's
ElementsWithin(p, c, num, den) ==
    \A i \in DOMAIN p.data :
        den * Abs(p.data[i] - c.data[i]) * 10^expected_decimal < num * Scale

----------------------------------------------------------------------------
(* C1 *)

----------------------------------------------------------------------------
(* C2 *)

\* the inputs as the first cell created them
CreatedInputs == calls[1].arg.args

\* C2: both models run on the inputs as created: the PyTorch call gets the
\* two tensors, the Caffe2 call gets, under the graph's input names and in
\* the same order, arrays holding the same values, and no step in between
\* changes `inputs` or `caffe2_inputs`.
C2_IdenticalInputs ==
    /\ pc # "create" => inputs = CreatedInputs
    /\ caffe2_inputs # <<>> =>
          /\ Len(caffe2_inputs) = Len(CreatedInputs)
          /\ \A k \in DOMAIN caffe2_inputs :
                /\ caffe2_inputs[k].data = CreatedInputs[k].data
                /\ caffe2_inputs[k].shape = CreatedInputs[k].shape
    /\ \A i \in CallsOf("pytorch_model") : calls[i].arg.args = CreatedInputs
    /\ \A i \in CallsOf("c2_native_run_net") :
          /\ DOMAIN calls[i].arg.feed = {onnx_model.graph.input[k] : k \in 1..2}
          /\ \A k \in 1..2 :
                /\ calls[i].arg.feed[onnx_model.graph.input[k]].data = CreatedInputs[k].data
                /\ calls[i].arg.feed[onnx_model.graph.input[k]].shape = CreatedInputs[k].shape

\* both models have run, on two inputs that differ
C2_Witness ==
    /\ Returned("pytorch_model")
    /\ Returned("c2_native_run_net")
    /\ inputs[1].data # inputs[2].data
    /\ inputs[1].shape # inputs[2].shape

----------------------------------------------------------------------------
(* C3 *)

\* the benchmark step has been reached
BenchmarkReached ==
    \/ pc \in {"bench_caffe2", "print_times", "done"}
    \/ CallsOf("benchmark_pytorch_model") # {}
    \/ CallsOf("benchmark_caffe2_model") # {}
    \/ pytorch_times # <<>>
    \/ caffe2_times # <<>>

----------------------------------------------------------------------------
(* C4 *)

\* the steps of the notebook, in the order of its cells
StepOrder ==
    << "torch.randn", "torch.onnx.export", "onnx.checker.check_model",
       "onnx_graph_to_caffe2_net", "save_caffe2_net", "load_caffe2_net",
       "pytorch_model", "c2_native_run_net", "assert_almost_equal",
       "benchmark_pytorch_model", "benchmark_caffe2_model" >>

Rank(fn) == CHOOSE r \in DOMAIN StepOrder : StepOrder[r] = fn

\* C4: the steps happen in the order of the cells (create, export, check,
\* convert, [save, load,] run both models, assert, benchmark), each at most
\* once and none skipped except the assertion of an empty loop; a step starts
\* only when every earlier one returned; and the nets that are run and
\* benchmarked are converted from the graph exported from pytorch_model,
\* which the checker accepted.
C4_FixedOrder ==
    /\ \A i \in DOMAIN calls :
          /\ calls[i].fn \in {StepOrder[r] : r \in DOMAIN StepOrder}
          /\ i < Len(calls) => ~calls[i].raised
          /\ i < Len(calls) =>
                \/ Rank(calls[i + 1].fn) = Rank(calls[i].fn) + 1
                \/ /\ calls[i].fn = "c2_native_run_net"
                   /\ calls[i + 1].fn = "benchmark_pytorch_model"
                   /\ Len(caffe2_results) = 0
    /\ calls # <<>> => calls[1].fn = StepOrder[1]
    /\ (pc = "error") <=> (calls # <<>> /\ calls[Len(calls)].raised)
    /\ \A i \in CallsOf("c2_native_run_net") \cup CallsOf("benchmark_caffe2_model") :
          /\ calls[i].arg.init.graph = onnx_model.graph
          /\ calls[i].arg.predict.graph = onnx_model.graph
          /\ calls[i].arg.init.name = "init"
          /\ calls[i].arg.predict.name = "predict"
          /\ onnx_model.graph.producer = pytorch_model.type
          /\ onnx_model.graph.well_formed
          /\ \E j \in CallsOf("torch.onnx.export") :
                j < i /\ calls[j].arg.model = pytorch_model
          /\ \E j \in CallsOf("onnx.checker.check_model") :
                j < i /\ calls[j].arg = onnx_model /\ ~calls[j].raised
    /\ \A i \in CallsOf("pytorch_model") \cup CallsOf("benchmark_pytorch_model") :
          calls[i].arg.model = pytorch_model

\* a complete run over a directory that held another model's nets
C4_Witness ==
    /\ pc = "done"
    /\ Len(calls) = Len(StepOrder)
    /\ fs.file[TxtPath(init_file)] = TextFormat(StaleNet)

----------------------------------------------------------------------------
(* C5 *)

\* C5: when the run is done, stdout holds exactly one PyTorch line, carrying
\* the first element of pytorch_times, and exactly one Caffe2 line, carrying
\* the first element of caffe2_times, printed after both benchmarks
\* returned; before that it holds neither.
C5_LatencyLines ==
    /\ pc = "done" =>
          /\ Returned("benchmark_pytorch_model") /\ Returned("benchmark_caffe2_model")
          /\ Cardinality(LinesWith(PytorchTimeLine)) = 1
          /\ Cardinality(LinesWith(Caffe2TimeLine)) = 1
          /\ \A i \in LinesWith(PytorchTimeLine) : stdout[i].args = <<pytorch_times[1]>>
          /\ \A i \in LinesWith(Caffe2TimeLine) : stdout[i].args = <<caffe2_times[1]>>
    /\ pc # "done" => ~Printed(PytorchTimeLine) /\ ~Printed(Caffe2TimeLine)

\* a finished run whose two runtimes measured different times
C5_Witness ==
    /\ pc = "done"
    /\ pytorch_times[1] # caffe2_times[1]
    /\ Len(pytorch_times) = 2

----------------------------------------------------------------------------
(* C6 *)

\* what a printed line reports, and for which runtime
Reports(line) ==
    IF line.text = PytorchTimeLine
    THEN [runtime |-> "PyTorch", quantity |-> "execution time per iteration"]
    ELSE IF line.text = Caffe2TimeLine
    THEN [runtime |-> "Caffe2", quantity |-> "execution time per iteration"]
    ELSE [runtime |-> "", quantity |-> ""]

\* C6: when the run is done, the output reports for each of the two models
\* both the execution time per iteration and the iterations per second.
C6_ReportsBoth ==
    pc = "done" =>
        \A rt \in {"PyTorch", "Caffe2"} :
            \A q \in {"execution time per iteration", "iterations per second"} :
                \E i \in DOMAIN stdout :
                    Reports(stdout[i]) = [runtime |-> rt, quantity |-> q]

----------------------------------------------------------------------------
(* C7 *)

----------------------------------------------------------------------------
(* C8 *)

\* C8: when the precision loop has ended it has compared exactly min(1, n)
\* pairs, n the number of Caffe2 outputs: only the first output was handed
\* to the assertion, with the PyTorch result, and with n = 0 nothing was
\* compared and the message is printed all the same.
C8_ComparesMinOneN ==
    /\ LoopEnded =>
          /\ compared = Min(1, Len(caffe2_results))
          /\ Cardinality(CallsOf("assert_almost_equal")) = compared
    /\ \A i \in CallsOf("assert_almost_equal") :
          /\ calls[i].arg.desired = caffe2_results[1]
          /\ calls[i].arg.actual = numpy(pytorch_results)
    /\ (LoopEnded /\ pc # "precision_loop" /\ Len(caffe2_results) = 0)
          => compared = 0 /\ Printed(PrecisionMessage)

\* the message was printed although the second Caffe2 output is far off
C8_Witness ==
    /\ Printed(PrecisionMessage)
    /\ Len(caffe2_results) = 2
    /\ compared = 1
    /\ caffe2_results[2].shape = pytorch_results.shape
    /\ ~ElementsWithin(pytorch_results, caffe2_results[2], 3, 2)

\* with no Caffe2 output the message is printed after no comparison
C8_WitnessEmpty ==
    Printed(PrecisionMessage) /\ Len(caffe2_results) = 0 /\ compared = 0

====
